---- MODULE Spec2Model ----
(***************************************************************************)
(* llog: the File handler (src/unnamed/part_001), the RotatingFile handler  *)
(* that embeds it (src/handler/rotating_file.go), and the logger's pass    *)
(* over its handlers.                                                      *)
(*                                                                         *)
(* Strings are sequences of one-character strings, so that Index, Replace, *)
(* the date layout, the glob match and sort.Strings are computed the way   *)
(* the Go library computes them.  Time is a day of the year 2007.          *)
(***************************************************************************)
EXTENDS Integers, Sequences, FiniteSets, TLC

\* ------------------------------------------------------------------ bounds
\* the first and the last day (of the year) the clock takes; 31 is Jan 31
FirstDay == 28
MaxDay == 31
\* dated files of the days before construction that may already exist
MaxOld == 2
\* the largest retention count a handler is constructed with
MaxMaxFiles == 2
\* calls made on the handler in one behaviour
MaxOps == 2
\* calls of SetFilenameFormat in one behaviour
MaxSets == 1
\* records logged through the logger in one behaviour
MaxLog == 1
\* File handlers the owner closes in one behaviour
MaxCloses == 1
\* handlers pushed on the logger
NumHandlers == 2
\* the highest severity (severities are 0..MaxLevel)
MaxLevel == 1
\* Logger instances of each channel name
NumLoggers == 2

NIL == <<"nil">>

\* ----------------------------------------------------------------- strings
HasPrefix(s, p) == Len(s) >= Len(p) /\ SubSeq(s, 1, Len(p)) = p

Drop(s, n) == SubSeq(s, n + 1, Len(s))

\* strings.Index: the 0-based place of the first occurrence of sub, or -1
Index(s, sub) ==
    LET hits == {i \in 0..(Len(s) - Len(sub)) : SubSeq(s, i + 1, i + Len(sub)) = sub}
    IN  IF hits = {} THEN -1 ELSE CHOOSE i \in hits : \A j \in hits : i <= j

LastIndexOf(s, c) ==
    LET hits == {i \in 1..Len(s) : s[i] = c}
    IN  IF hits = {} THEN 0 ELSE CHOOSE i \in hits : \A j \in hits : i >= j

\* the byte order of the characters that occur in paths and formats
Alphabet == <<"*", "-", ".", "/", "0", "1", "2", "3", "4", "5", "6", "7", "8", "9",
              "_", "a", "d", "e", "f", "g", "i", "l", "m", "n", "o", "t", "x", "{", "}">>

Ord(c) == CHOOSE i \in 1..Len(Alphabet) : Alphabet[i] = c

\* Go's string comparison s < t
RECURSIVE StrLess(_, _)
StrLess(s, t) ==
    IF t = <<>> THEN FALSE
    ELSE IF s = <<>> THEN TRUE
    ELSE IF Head(s) = Head(t) THEN StrLess(Tail(s), Tail(t))
    ELSE Ord(Head(s)) < Ord(Head(t))

\* sort.Strings over the elements of a set of strings
RECURSIVE SortStrings(_)
SortStrings(S) ==
    IF S = {} THEN <<>>
    ELSE LET m == CHOOSE x \in S : \A y \in S \ {x} : StrLess(x, y)
         IN  <<m>> \o SortStrings(S \ {m})

PhFilename == <<"{", "f", "i", "l", "e", "n", "a", "m", "e", "}">>
PhDate == <<"{", "d", "a", "t", "e", "}">>

\* strings.NewReplacer("{filename}", basename, "{date}", date).Replace(s)
RECURSIVE Replace(_, _, _)
Replace(s, basename, date) ==
    IF s = <<>> THEN <<>>
    ELSE IF HasPrefix(s, PhFilename)
         THEN basename \o Replace(Drop(s, Len(PhFilename)), basename, date)
    ELSE IF HasPrefix(s, PhDate)
         THEN date \o Replace(Drop(s, Len(PhDate)), basename, date)
    ELSE <<Head(s)>> \o Replace(Tail(s), basename, date)

\* ------------------------------------------------------------------- paths
\* filepath.Dir of a cleaned absolute path with at least one directory
Dir(p) == SubSeq(p, 1, LastIndexOf(p, "/") - 1)

\* filepath.Base
Base(p) == Drop(p, LastIndexOf(p, "/"))

\* filepath.Ext: from the last dot of the last element, or empty
Ext(p) ==
    LET b == Base(p)
        i == LastIndexOf(b, ".")
    IN  IF i = 0 THEN <<>> ELSE Drop(b, i - 1)

\* -------------------------------------------------------------------- time
MonthDays == <<31, 28, 31, 30, 31, 30, 31, 31, 30, 31, 30, 31>>

RECURSIVE MonthFrom(_, _)
MonthFrom(doy, m) ==
    IF doy <= MonthDays[m] THEN <<m, doy>> ELSE MonthFrom(doy - MonthDays[m], m + 1)

\* time.Time.Month and time.Time.Day of day-of-year doy
Month(doy) == MonthFrom(doy, 1)[1]
Day(doy) == MonthFrom(doy, 1)[2]

Digits == <<"0", "1", "2", "3", "4", "5", "6", "7", "8", "9">>
TwoDigits(n) == <<Digits[(n \div 10) + 1], Digits[(n % 10) + 1]>>
YearDigits == <<"2", "0", "0", "7">>

\* time.Time.Format for the layout elements 2006, 01 and 02
RECURSIVE Format(_, _)
Format(layout, doy) ==
    IF layout = <<>> THEN <<>>
    ELSE IF HasPrefix(layout, <<"2", "0", "0", "6">>)
         THEN YearDigits \o Format(Drop(layout, 4), doy)
    ELSE IF HasPrefix(layout, <<"0", "1">>)
         THEN TwoDigits(Month(doy)) \o Format(Drop(layout, 2), doy)
    ELSE IF HasPrefix(layout, <<"0", "2">>)
         THEN TwoDigits(Day(doy)) \o Format(Drop(layout, 2), doy)
    ELSE <<Head(layout)>> \o Format(Tail(layout), doy)

\* time.Now().AddDate(0, 0, 1).Day()
Tomorrow(doy) == Day(doy + 1)

\* --------------------------------------------------------- filename template
DefaultFilenameFormat == PhFilename \o <<"-">> \o PhDate
DefaultDateFormat == <<"2", "0", "0", "6", "-", "0", "1", "-", "0", "2">>

\* RotatingFile.timedFilename
timedFilename(filename, filenameFormat, dateFormat, doy) ==
    LET dir == Dir(filename)
        ext == Ext(filename)
        base == Base(filename)
        basename == IF ext # <<>> THEN SubSeq(base, 1, Index(base, ext)) ELSE base
        date == Format(dateFormat, doy)
    IN  Replace(dir \o <<"/">> \o filenameFormat, basename, date) \o ext

\* RotatingFile.globPattern
globPattern(filename, filenameFormat) ==
    LET dir == Dir(filename)
        basename == Base(filename)
        ext == Ext(filename)
    IN  Replace(dir \o <<"/">> \o filenameFormat, basename, <<"*">>) \o ext

\* path.Match for patterns whose only metacharacter is *
RECURSIVE Match(_, _)
Match(p, s) ==
    IF p = <<>> THEN s = <<>>
    ELSE IF Head(p) = "*"
         THEN Match(Tail(p), s) \/ (s # <<>> /\ Head(s) # "/" /\ Match(p, Tail(s)))
    ELSE s # <<>> /\ Head(s) = Head(p) /\ Match(Tail(p), Tail(s))

\* filepath.Glob over the existing files
Glob(pattern, existing) == {f \in existing : Match(pattern, f)}

\* ------------------------------------------------------------------ records
\* types.Record: Datetime (day of the year), Level, the context a processor
\* adds (extra) and Formatted (empty until a formatter has run)
NewRecord(id, doy, sev) ==
    [id |-> id, day |-> doy, sev |-> sev, extra |-> 0, formatted |-> <<>>]

\* Processable.ProcessRecord: the processors enrich the record
ProcessRecord(rec) == [rec EXCEPT !.extra = 1]

\* IFormatter.Format: the bytes of a record
FormatBytes(rec) == <<rec.id, rec.day, rec.sev, rec.extra>>

\* ------------------------------------------------------------- File handler
\* handler.File: level and bubble of the embedded Handler, the processors of
\* the embedded Processable (set or nil), and the writer (a path, or NIL)
NewFile(path, level, bubble, processors) ==
    [level |-> level, bubble |-> bubble, processors |-> processors, writer |-> path]

\* Handler.IsHandling
IsHandling(f, rec) == rec.sev >= f.level

\* File.Write: os.File.Write on a nil *os.File returns ErrInvalid, which is dropped
FileWrite(f, fsys, rec) ==
    IF f.writer = NIL \/ f.writer \notin DOMAIN fsys THEN fsys
    ELSE [fsys EXCEPT ![f.writer] = Append(@, rec.formatted)]

\* File.Close
FileClose(f) == [f EXCEPT !.writer = NIL]

\* File.Handle without its severity gate
FileHandleNoGate(f, fsys, rec, fmtErr) ==
    LET r1 == IF f.processors THEN ProcessRecord(rec) ELSE rec
    IN  IF fmtErr
        THEN [ret |-> FALSE, fs |-> fsys, rec |-> [r1 EXCEPT !.formatted = <<>>]]
        ELSE LET r2 == [r1 EXCEPT !.formatted = FormatBytes(r1)]
             IN  [ret |-> (FALSE = f.bubble), fs |-> FileWrite(f, fsys, r2), rec |-> r2]

\* File.Handle returning the bubble flag instead of its negation
FileHandleBubble(f, fsys, rec, fmtErr) ==
    IF ~IsHandling(f, rec) THEN [ret |-> FALSE, fs |-> fsys, rec |-> rec]
    ELSE LET r1 == IF f.processors THEN ProcessRecord(rec) ELSE rec
         IN  IF fmtErr
             THEN [ret |-> FALSE, fs |-> fsys, rec |-> [r1 EXCEPT !.formatted = <<>>]]
             ELSE LET r2 == [r1 EXCEPT !.formatted = FormatBytes(r1)]
                  IN  [ret |-> f.bubble, fs |-> FileWrite(f, fsys, r2), rec |-> r2]

\* File.Handle going on to the writer after the formatter failed
FileHandleWriteOnError(f, fsys, rec, fmtErr) ==
    IF ~IsHandling(f, rec) THEN [ret |-> FALSE, fs |-> fsys, rec |-> rec]
    ELSE LET r1 == IF f.processors THEN ProcessRecord(rec) ELSE rec
             r2 == [r1 EXCEPT !.formatted = IF fmtErr THEN <<>> ELSE FormatBytes(r1)]
         IN  [ret |-> (FALSE = f.bubble), fs |-> FileWrite(f, fsys, r2), rec |-> r2]

\* File.Handle; fmtErr: the formatter returns an error for this record
FileHandle(f, fsys, rec, fmtErr) ==
    IF ~IsHandling(f, rec) THEN [ret |-> FALSE, fs |-> fsys, rec |-> rec]
    ELSE LET r1 == IF f.processors THEN ProcessRecord(rec) ELSE rec
         IN  IF fmtErr
             THEN [ret |-> FALSE, fs |-> fsys, rec |-> [r1 EXCEPT !.formatted = <<>>]]
             ELSE LET r2 == [r1 EXCEPT !.formatted = FormatBytes(r1)]
                  IN  [ret |-> (FALSE = f.bubble), fs |-> FileWrite(f, fsys, r2), rec |-> r2]

\* the file of the i-th handler pushed on the logger
HandlerPath(i) == <<"/", "t", "/", "h", Digits[i + 1]>>

\* ----------------------------------------------------- RotatingFile handler
\* NewRotatingFile, constructed on day doy: the embedded File is opened on the
\* first dated path
NewRotatingFile(filename, maxFiles, level, bubble, doy) ==
    LET path == timedFilename(filename, DefaultFilenameFormat, DefaultDateFormat, doy)
    IN  [filename |-> filename,
         maxFiles |-> maxFiles,
         mustRotate |-> FALSE,
         nextRotation |-> Tomorrow(doy),
         filenameFormat |-> DefaultFilenameFormat,
         dateFormat |-> DefaultDateFormat,
         Path |-> path,
         File |-> NewFile(path, level, bubble, FALSE)]

\* what a call leaves behind: the handler, the file system, the error rotate
\* returned ("nil" when it returned none or was not called), whether the call
\* panicked, whether rotate ran, and the files it removed
Outcome(h, fsys, err, panic, rotated, removed) ==
    [rf |-> h, fs |-> fsys, err |-> err, panic |-> panic, rotated |-> rotated,
     removed |-> removed]

\* the files left after os.Remove of each file of gone
RemoveAll(fsys, gone) == [p \in (DOMAIN fsys) \ gone |-> fsys[p]]

\* rotate leaving the next-rotation boundary as it was
rotateStaleBoundary(h, fsys, doy, failAt, capOk) ==
    LET h1 == [h EXCEPT !.Path = timedFilename(h.filename, h.filenameFormat,
                                                h.dateFormat, doy),
                        !.File = [@ EXCEPT !.writer = NIL]]
        files == SortStrings(Glob(globPattern(h.filename, h.filenameFormat),
                                  DOMAIN fsys))
        n == Len(files)
        failIdx == IF failAt \in 1..n THEN failAt
                   ELSE IF h.maxFiles > n THEN n + 1
                   ELSE 0
        gone == {files[i] : i \in 1..(IF failIdx = 0 THEN n ELSE failIdx - 1)}
    IN  IF h.maxFiles = 0 THEN Outcome(h1, fsys, "nil", FALSE, TRUE, {})
        ELSE IF n > h.maxFiles THEN Outcome(h1, fsys, "nil", FALSE, TRUE, {})
        ELSE IF h.maxFiles > n /\ (n = 0 \/ ~capOk)
             THEN Outcome(h1, fsys, "nil", TRUE, TRUE, {})
        ELSE IF failIdx # 0
             THEN Outcome(h1, RemoveAll(fsys, gone), "remove", FALSE, TRUE, gone)
        ELSE Outcome([h1 EXCEPT !.mustRotate = FALSE], RemoveAll(fsys, gone),
                     "nil", FALSE, TRUE, gone)

\* RotatingFile.rotate on day doy.  failAt: the iteration of the removal loop
\* whose os.Remove fails (0: none fails).  capOk: the capacity of the slice
\* filepath.Glob returned reaches maxFiles (files[:maxFiles] panics otherwise;
\* the elements past its length are empty strings, which os.Remove rejects)
rotate(h, fsys, doy, failAt, capOk) ==
    LET h1 == [h EXCEPT !.Path = timedFilename(h.filename, h.filenameFormat,
                                                h.dateFormat, doy),
                        !.File = [@ EXCEPT !.writer = NIL],
                        !.nextRotation = Tomorrow(doy)]
        files == SortStrings(Glob(globPattern(h.filename, h.filenameFormat),
                                  DOMAIN fsys))
        n == Len(files)
        failIdx == IF failAt \in 1..n THEN failAt
                   ELSE IF h.maxFiles > n THEN n + 1
                   ELSE 0
        gone == {files[i] : i \in 1..(IF failIdx = 0 THEN n ELSE failIdx - 1)}
    IN  IF h.maxFiles = 0 THEN Outcome(h1, fsys, "nil", FALSE, TRUE, {})
        ELSE IF n > h.maxFiles THEN Outcome(h1, fsys, "nil", FALSE, TRUE, {})
        ELSE IF h.maxFiles > n /\ (n = 0 \/ ~capOk)
             THEN Outcome(h1, fsys, "nil", TRUE, TRUE, {})
        ELSE IF failIdx # 0
             THEN Outcome(h1, RemoveAll(fsys, gone), "remove", FALSE, TRUE, gone)
        ELSE Outcome([h1 EXCEPT !.mustRotate = FALSE], RemoveAll(fsys, gone),
                     "nil", FALSE, TRUE, gone)

\* RotatingFile.Close: it has no result, the error of rotate is dropped
Close(h, fsys, doy, failAt, capOk) ==
    LET h1 == [h EXCEPT !.File = FileClose(@)]
    IN  IF h1.mustRotate THEN rotate(h1, fsys, doy, failAt, capOk)
        ELSE Outcome(h1, fsys, "nil", FALSE, FALSE, {})

\* the test of RotatingFile.Write, line 70
MustRotateFor(h, rec) == h.nextRotation < Day(rec.day)

\* RotatingFile.Write
Write(h, fsys, rec, doy, failAt, capOk) ==
    IF MustRotateFor(h, rec)
    THEN LET c == Close([h EXCEPT !.mustRotate = TRUE], fsys, doy, failAt, capOk)
         IN  IF c.panic THEN c
             ELSE [c EXCEPT !.fs = FileWrite(c.rf.File, c.fs, rec)]
    ELSE Outcome(h, FileWrite(h.File, fsys, rec), "nil", FALSE, FALSE, {})

\* regexp "^2006(([/_.-]?01)([/_.-]?02)?)?$"
Separators == {"/", "_", ".", "-"}
SkipSeparator(s) == IF s # <<>> /\ Head(s) \in Separators THEN Tail(s) ELSE s
\* the pattern without its anchor at the end: "^2006(([/_.-]?01)([/_.-]?02)?)?"
MatchDateFormatPrefix(s) == HasPrefix(s, <<"2", "0", "0", "6">>)

MatchDateFormat(s) ==
    /\ HasPrefix(s, <<"2", "0", "0", "6">>)
    /\ LET r == Drop(s, 4)
           m == SkipSeparator(r)
           d == SkipSeparator(Drop(m, 2))
       IN  \/ r = <<>>
           \/ /\ HasPrefix(m, <<"0", "1">>)
              /\ \/ Drop(m, 2) = <<>>
                 \/ d = <<"0", "2">>

\* SetFilenameFormat storing the two formats before it validates them
SetFilenameFormatStoreFirst(h, fsys, filenameFormat, dateFormat, doy, failAt, capOk) ==
    LET h0 == [h EXCEPT !.filenameFormat = filenameFormat, !.dateFormat = dateFormat]
    IN  IF ~MatchDateFormat(dateFormat)
        THEN Outcome(h0, fsys, "nil", FALSE, FALSE, {}) @@ [ret |-> "error"]
        ELSE IF Index(filenameFormat, PhDate) < 0
        THEN Outcome(h0, fsys, "nil", FALSE, FALSE, {}) @@ [ret |-> "error"]
        ELSE LET c == Close(h0, fsys, doy, failAt, capOk)
             IN  c @@ [ret |-> IF c.panic THEN "panic" ELSE "nil"]

\* RotatingFile.SetFilenameFormat: ret is "error" or "nil", or "panic" when the
\* call never returns
SetFilenameFormat(h, fsys, filenameFormat, dateFormat, doy, failAt, capOk) ==
    IF ~MatchDateFormat(dateFormat)
    THEN Outcome(h, fsys, "nil", FALSE, FALSE, {}) @@ [ret |-> "error"]
    ELSE IF Index(filenameFormat, PhDate) < 0
    THEN Outcome(h, fsys, "nil", FALSE, FALSE, {}) @@ [ret |-> "error"]
    ELSE LET c == Close([h EXCEPT !.filenameFormat = filenameFormat,
                                  !.dateFormat = dateFormat],
                        fsys, doy, failAt, capOk)
         IN  c @@ [ret |-> IF c.panic THEN "panic" ELSE "nil"]

\* ---------------------------------------------------------------- Registry
\* a Go map[string]*Logger: make(...) gives an empty map, nil a map without
\* storage; reading a nil map finds no key
MakeMap == [isNil |-> FALSE, entries |-> [k \in {} |-> NIL]]
NilMap == [isNil |-> TRUE, entries |-> [k \in {} |-> NIL]]
MapHas(m, k) == k \in DOMAIN m.entries
MapSet(m, k, v) ==
    [m EXCEPT !.entries = [x \in (DOMAIN m.entries) \cup {k} |->
                              IF x = k THEN v ELSE m.entries[x]]]
MapDelete(m, k) ==
    [m EXCEPT !.entries = [x \in (DOMAIN m.entries) \ {k} |-> m.entries[x]]]

NewRegistry == [loggers |-> MakeMap]

\* the nil *Logger
NilLogger == [id |-> 0, name |-> ""]

\* AddLogger replacing an existing entry whatever overwrite says
AddLoggerAlwaysOverwrite(r, logger, name, overwrite) ==
    LET key == IF name = "" THEN logger.name ELSE name
    IN  IF r.loggers.isNil THEN [r |-> r, ret |-> "panic", panic |-> TRUE]
        ELSE [r |-> [r EXCEPT !.loggers = MapSet(@, key, logger)],
              ret |-> "nil", panic |-> FALSE]

\* Registry.AddLogger: an assignment to an entry of a nil map panics
AddLogger(r, logger, name, overwrite) ==
    LET key == IF name = "" THEN logger.name ELSE name
    IN  IF MapHas(r.loggers, key) /\ ~overwrite
        THEN [r |-> r, ret |-> "error", panic |-> FALSE]
        ELSE IF r.loggers.isNil THEN [r |-> r, ret |-> "panic", panic |-> TRUE]
        ELSE [r |-> [r EXCEPT !.loggers = MapSet(@, key, logger)],
              ret |-> "nil", panic |-> FALSE]

\* Registry.HasLogger
HasLogger(r, name) == MapHas(r.loggers, name)

\* Registry.GetLogger: the logger and the error
GetLogger(r, name) ==
    IF MapHas(r.loggers, name)
    THEN [logger |-> r.loggers.entries[name], err |-> "nil"]
    ELSE [logger |-> NilLogger, err |-> "error"]

\* Registry.RemoveLogger
RemoveLogger(r, name) ==
    IF MapHas(r.loggers, name) THEN [r EXCEPT !.loggers = MapDelete(@, name)] ELSE r

\* Registry.Clear
Clear(r) == [r EXCEPT !.loggers = NilMap]

\* ------------------------------------------------------------------ inputs
\* channel names, the Logger instances (two of a name let a name be registered
\* again with another instance), and the names a caller passes
ChannelNames == {"a", "b"}
Loggers == [id : 1..NumLoggers, name : ChannelNames]
RegistryNames == ChannelNames \cup {""}

Filenames == {<<"/", "t", "/", "a", ".", "l", "o", "g">>, <<"/", "t", "/", "a">>}

FilenameFormats ==
    { DefaultFilenameFormat,
      PhDate \o <<"_">> \o PhFilename,
      PhFilename,
      <<"{", "d", "a", "t", "e">> }

DateFormats ==
    { DefaultDateFormat,
      <<"2", "0", "0", "6">>,
      <<"2", "0", "0", "6", "_", "0", "1", "0", "2">>,
      <<"2", "0", "0", "6", "-", "0", "2", "-", "0", "1">>,
      <<"2", "0", "0", "6", "-", "0", "1", "-">>,
      <<"2", "0", "0", "6", "-", "-", "0", "1">>,
      <<"0", "1", "-", "0", "2">> }

Levels == 0..MaxLevel
Threads == {1, 2}

VARIABLES
    now,        \* the clock: the day of the year
    fs,         \* the file system: path -> the byte strings written to the file
    handlers,   \* Logger.handlers: the File handlers in registration order
    disp,       \* the logger's dispatch of one record
    nlog,       \* records logged so far
    rf,         \* the RotatingFile handler
    panicked,   \* a call panicked: the process is gone
    nops,       \* calls made on the rotating handler so far
    nsets,      \* calls of SetFilenameFormat so far
    writes,     \* per Write call: the record's day and the path resolved for it
    pc,         \* per thread: its place in RotatingFile.Write
    trec,       \* per thread: the record it writes
    rotations,  \* per thread: its calls of rotate since the clock last advanced
    registry,   \* the Registry
    last        \* the last call that returned: its arguments, result and pre-state

vars == <<now, fs, handlers, disp, nlog, rf, panicked, nops, nsets, writes, pc, trec,
          rotations, registry, last>>

loggerVars == <<handlers, disp, nlog>>
threadVars == <<pc, trec, rotations>>

IdleDispatch == [active |-> FALSE, rec |-> NewRecord(0, FirstDay, 0), seen |-> <<>>]

\* a formatted record of day doy, as File.Handle hands it to the writer
FormattedRecord(id, doy) ==
    LET r == NewRecord(id, doy, MaxLevel) IN [r EXCEPT !.formatted = FormatBytes(r)]

\* the dated files of the old days before doy
OldFiles(filename, doy, old) ==
    {timedFilename(filename, DefaultFilenameFormat, DefaultDateFormat, d) :
        d \in (doy - old)..(doy - 1)}

\* a rotating handler constructed today, its file created by os.OpenFile, beside
\* the dated files of up to MaxOld earlier days
InitRotating ==
    /\ now = FirstDay
    /\ \E filename \in Filenames, maxFiles \in 0..MaxMaxFiles, old \in 0..MaxOld :
         /\ rf = NewRotatingFile(filename, maxFiles, 0, TRUE, now)
         /\ fs = [p \in OldFiles(filename, now, old) \cup {rf.Path} |-> <<>>]
    /\ panicked = FALSE
    /\ nops = 0
    /\ nsets = 0
    /\ writes = <<>>
    /\ pc = [t \in Threads |-> "idle"]
    /\ trec = [t \in Threads |-> FormattedRecord(0, now)]
    /\ rotations = [t \in Threads |-> 0]
    /\ registry = NewRegistry
    /\ last = [op |-> "none"]

Init ==
    /\ InitRotating
    /\ handlers = <<>>
    /\ disp = IdleDispatch
    /\ nlog = 0

\* a logger with up to NumHandlers File handlers pushed, each on its own file;
\* no rotating handler is constructed
InitLogger ==
    /\ now = FirstDay
    /\ rf = NIL
    /\ \E n \in 0..NumHandlers :
         /\ \E cfg \in [1..n -> Levels \X BOOLEAN \X BOOLEAN] :
              handlers = [i \in 1..n |->
                            NewFile(HandlerPath(i), cfg[i][1], cfg[i][2], cfg[i][3])]
         /\ fs = [p \in {HandlerPath(i) : i \in 1..n} |-> <<>>]
    /\ disp = IdleDispatch
    /\ nlog = 0
    /\ panicked = FALSE
    /\ nops = 0
    /\ nsets = 0
    /\ writes = <<>>
    /\ pc = [t \in Threads |-> "idle"]
    /\ trec = [t \in Threads |-> NIL]
    /\ rotations = [t \in Threads |-> 0]
    /\ registry = NewRegistry
    /\ last = [op |-> "none"]

\* the clock reaches the next day
Tick ==
    /\ ~panicked
    /\ now < MaxDay
    /\ now' = now + 1
    /\ rotations' = [t \in Threads |-> 0]
    /\ UNCHANGED <<registry, fs, handlers, disp, nlog, rf, panicked, nops, nsets,
                   writes, pc, trec, last>>

\* the failing removal and the slice capacity matter only when rotate runs
Failures(rotates) == IF rotates THEN 0..MaxMaxFiles ELSE {0}
Capacities(rotates) == IF rotates THEN BOOLEAN ELSE {TRUE}

\* what a call on the rotating handler leaves in the state
Returned(o, op, args, ret) ==
    /\ rf' = o.rf
    /\ fs' = o.fs
    /\ panicked' = o.panic
    /\ nops' = nops + 1
    /\ last' = [op |-> op, args |-> args, day |-> now, rfBefore |-> rf,
                fsBefore |-> fs, ret |-> ret, err |-> o.err, panic |-> o.panic,
                rotated |-> o.rotated, removed |-> o.removed]
    /\ UNCHANGED <<registry, now, loggerVars, threadVars>>

\* a caller writes a record of today through RotatingFile.Write
DoWrite ==
    /\ ~panicked
    /\ nops < MaxOps
    /\ LET rec == FormattedRecord(nops + 1, now)
           rotates == MustRotateFor(rf, rec)
       IN  \E failAt \in Failures(rotates), capOk \in Capacities(rotates) :
             \E o \in {Write(rf, fs, rec, now, failAt, capOk)} :
                 /\ Returned(o, "Write", rec, "void")
                 /\ writes' = Append(writes, [day |-> rec.day, path |-> o.rf.Path])
                 /\ UNCHANGED nsets

\* the owner closes the rotating handler
DoClose ==
    /\ ~panicked
    /\ nops < MaxOps
    /\ \E failAt \in Failures(rf.mustRotate), capOk \in Capacities(rf.mustRotate) :
         \E o \in {Close(rf, fs, now, failAt, capOk)} :
             /\ Returned(o, "Close", <<>>, "void")
             /\ UNCHANGED <<writes, nsets>>

\* the owner reconfigures the filename template
DoSetFilenameFormat ==
    /\ ~panicked
    /\ nops < MaxOps
    /\ nsets < MaxSets
    /\ \E ff \in FilenameFormats, df \in DateFormats,
          failAt \in Failures(rf.mustRotate), capOk \in Capacities(rf.mustRotate) :
         \E o \in {SetFilenameFormat(rf, fs, ff, df, now, failAt, capOk)} :
             /\ Returned(o, "SetFilenameFormat", <<ff, df>>, o.ret)
             /\ nsets' = nsets + 1
             /\ UNCHANGED writes

\* --------------------------------------------------------------- the logger
rotatingVars == <<rf, panicked, nops, nsets, writes>>

\* Logger.log: build the record and start the pass over the handlers; a logger
\* without handlers drops it
Log ==
    /\ ~disp.active
    /\ nlog < MaxLog
    /\ \E sev \in Levels :
         disp' = [active |-> Len(handlers) > 0,
                  rec |-> NewRecord(nlog + 1, now, sev),
                  seen |-> <<>>]
    /\ nlog' = nlog + 1
    /\ UNCHANGED <<registry, now, fs, handlers, rotatingVars, threadVars, last>>

\* the handlers whose formatter has returned an error in a direct call of
\* Handle so far
FailedSoFar ==
    IF last.op = "Handle"
    THEN last.failedBefore \cup (IF last.fmtErr THEN {last.h} ELSE {})
    ELSE {}

\* the formatter is called, and may fail, only for a record that passes the gate
FormatErrors(f, rec) == IF IsHandling(f, rec) THEN BOOLEAN ELSE {FALSE}

\* the logger calls Handle of the next handler; true ends the pass
Dispatch ==
    /\ disp.active
    /\ LET i == Len(disp.seen) + 1
       IN  \E fmtErr \in FormatErrors(handlers[i], disp.rec) :
             LET r == FileHandle(handlers[i], fs, disp.rec, fmtErr)
             IN  /\ fs' = r.fs
                 /\ disp' = [active |-> ~r.ret /\ i < Len(handlers),
                             rec |-> r.rec,
                             seen |-> Append(disp.seen,
                                             [h |-> i, ret |-> r.ret, fmtErr |-> fmtErr])]
                 /\ last' = [op |-> "Handle", h |-> i, f |-> handlers[i],
                             rec |-> disp.rec, fmtErr |-> fmtErr, ret |-> r.ret,
                             fsBefore |-> fs]
    /\ UNCHANGED <<registry, now, handlers, nlog, rotatingVars, threadVars>>

\* the owner closes a File handler between two log calls
CloseHandler ==
    /\ ~disp.active
    /\ nlog < MaxLog
    /\ Cardinality({i \in 1..Len(handlers) : handlers[i].writer = NIL}) < MaxCloses
    /\ \E i \in 1..Len(handlers) :
         /\ handlers[i].writer # NIL
         /\ handlers' = [handlers EXCEPT ![i] = FileClose(@)]
    /\ UNCHANGED <<registry, now, fs, disp, nlog, rotatingVars, threadVars, last>>

NextLogger ==
    \/ Log
    \/ Dispatch
    \/ CloseHandler

\* ------------------------------------------------- one File handler, alone
\* a File handler on its own file, not pushed on any logger
InitFile ==
    /\ InitLogger
    /\ Len(handlers) = 1

\* a caller hands a record of today to File.Handle, as HandleBatch does for
\* each record of its batch
DoHandle ==
    /\ nops < MaxOps
    /\ \E sev \in Levels :
         LET rec == NewRecord(nops + 1, now, sev)
         IN  \E fmtErr \in FormatErrors(handlers[1], rec) :
               LET r == FileHandle(handlers[1], fs, rec, fmtErr)
               IN  /\ fs' = r.fs
                   /\ last' = [op |-> "Handle", h |-> 1, f |-> handlers[1],
                               rec |-> rec, fmtErr |-> fmtErr, ret |-> r.ret,
                               fsBefore |-> fs, failedBefore |-> FailedSoFar]
    /\ nops' = nops + 1
    /\ UNCHANGED <<registry, now, loggerVars, rf, panicked, nsets, writes, threadVars>>

NextFile ==
    \/ DoHandle
    \/ CloseHandler

\* ------------------------------------------------------------- the registry
\* a registry just made by NewRegistry; no handler exists
InitRegistry ==
    /\ InitLogger
    /\ Len(handlers) = 0

\* what a call on the registry leaves in the state
RegistryReturned(r, op, args, ret, value, panic) ==
    /\ registry' = r
    /\ panicked' = panic
    /\ nops' = nops + 1
    /\ last' = [op |-> op, args |-> args, ret |-> ret, value |-> value,
                panic |-> panic, regBefore |-> registry]
    /\ UNCHANGED <<now, fs, loggerVars, rf, nsets, writes, threadVars>>

DoAddLogger ==
    /\ ~panicked
    /\ nops < MaxOps
    /\ \E logger \in Loggers, name \in RegistryNames, overwrite \in BOOLEAN :
         \E o \in {AddLogger(registry, logger, name, overwrite)} :
             RegistryReturned(o.r, "AddLogger",
                              [logger |-> logger, name |-> name, overwrite |-> overwrite],
                              o.ret, NilLogger, o.panic)

DoHasLogger ==
    /\ ~panicked
    /\ nops < MaxOps
    /\ \E name \in RegistryNames :
         RegistryReturned(registry, "HasLogger", [name |-> name], "void",
                          HasLogger(registry, name), FALSE)

DoGetLogger ==
    /\ ~panicked
    /\ nops < MaxOps
    /\ \E name \in RegistryNames :
         \E o \in {GetLogger(registry, name)} :
             RegistryReturned(registry, "GetLogger", [name |-> name], o.err,
                              o.logger, FALSE)

DoRemoveLogger ==
    /\ ~panicked
    /\ nops < MaxOps
    /\ \E name \in RegistryNames :
         RegistryReturned(RemoveLogger(registry, name), "RemoveLogger",
                          [name |-> name], "void", NilLogger, FALSE)

DoClear ==
    /\ ~panicked
    /\ nops < MaxOps
    /\ RegistryReturned(Clear(registry), "Clear", <<>>, "void", NilLogger, FALSE)

NextRegistry ==
    \/ DoAddLogger
    \/ DoHasLogger
    \/ DoGetLogger
    \/ DoRemoveLogger
    \/ DoClear

\* ------------------------------------------- concurrent RotatingFile.Write
\* a thread enters RotatingFile.Write with a record of today: lines 70-71
Enter(t) ==
    /\ ~panicked
    /\ pc[t] = "idle"
    /\ nops < MaxOps
    /\ LET rec == FormattedRecord(nops + 1, now)
       IN  /\ trec' = [trec EXCEPT ![t] = rec]
           /\ IF MustRotateFor(rf, rec)
              THEN /\ rf' = [rf EXCEPT !.mustRotate = TRUE]
                   /\ pc' = [pc EXCEPT ![t] = "close"]
              ELSE /\ rf' = rf
                   /\ pc' = [pc EXCEPT ![t] = "write"]
    /\ nops' = nops + 1
    /\ UNCHANGED <<registry, now, fs, loggerVars, panicked, nsets, writes, rotations, last>>

\* RotatingFile.Close up to its test of mustRotate: lines 80-82
CloseFile(t) ==
    /\ ~panicked
    /\ pc[t] = "close"
    /\ rf' = [rf EXCEPT !.File = FileClose(@)]
    /\ pc' = [pc EXCEPT ![t] = IF rf.mustRotate THEN "rotate" ELSE "write"]
    /\ UNCHANGED <<registry, now, fs, loggerVars, panicked, nops, nsets, writes, trec,
                   rotations, last>>

\* rotate: lines 88-117
Rotate(t) ==
    /\ ~panicked
    /\ pc[t] = "rotate"
    /\ \E failAt \in 0..MaxMaxFiles, capOk \in BOOLEAN :
         \E o \in {rotate(rf, fs, now, failAt, capOk)} :
             /\ rf' = o.rf
             /\ fs' = o.fs
             /\ panicked' = o.panic
    /\ rotations' = [rotations EXCEPT ![t] = @ + 1]
    /\ pc' = [pc EXCEPT ![t] = "write"]
    /\ UNCHANGED <<registry, now, loggerVars, nops, nsets, writes, trec, last>>

\* rf.File.Write(record): line 75
WriteFile(t) ==
    /\ ~panicked
    /\ pc[t] = "write"
    /\ fs' = FileWrite(rf.File, fs, trec[t])
    /\ writes' = Append(writes, [day |-> trec[t].day, path |-> rf.Path])
    /\ pc' = [pc EXCEPT ![t] = "idle"]
    /\ UNCHANGED <<registry, now, loggerVars, rf, panicked, nops, nsets, trec, rotations, last>>

NextConc ==
    \/ Tick
    \/ \E t \in Threads : Enter(t)
    \/ \E t \in Threads : CloseFile(t)
    \/ \E t \in Threads : Rotate(t)
    \/ \E t \in Threads : WriteFile(t)

Next ==
    \/ Tick
    \/ DoWrite
    \/ DoClose

NextFormat ==
    \/ Tick
    \/ DoWrite
    \/ DoSetFilenameFormat

Spec == Init /\ [][Next]_vars

SpecFormat == Init /\ [][NextFormat]_vars

SpecLogger == InitLogger /\ [][NextLogger]_vars

SpecFile == InitFile /\ [][NextFile]_vars

SpecRegistry == InitRegistry /\ [][NextRegistry]_vars

SpecConc == Init /\ [][NextConc]_vars

\* ================================================================== claims
\* the last call was File.Handle, made by the logger
Handled == last.op = "Handle"

\* the bytes File.Handle formats for the record it was given
HandledBytes ==
    FormatBytes(IF last.f.processors THEN ProcessRecord(last.rec) ELSE last.rec)

\* C1: a record below the handler's level floor makes Handle return false and
\* leaves every file as it was
C1_BelowFloorNoWrite ==
    (Handled /\ last.rec.sev < last.f.level) =>
        (last.ret = FALSE /\ fs = last.fsBefore)

C1_Witness ==
    /\ Handled
    /\ last.rec.sev < last.f.level
    /\ last.f.writer # NIL
    /\ last.f.processors
    /\ ~last.fmtErr
    /\ last.ret = FALSE

\* C2: a record that passes the gate and is formatted without error is written
\* exactly once to the handler's file, and Handle returns the negation of bubble
C2_HandledWrittenOnce ==
    (Handled /\ last.rec.sev >= last.f.level /\ ~last.fmtErr) =>
        /\ last.ret = ~last.f.bubble
        /\ fs = [last.fsBefore EXCEPT ![HandlerPath(last.h)] = Append(@, HandledBytes)]

\* C3: the logger calls the handlers in registration order; after a handler
\* returned true (it handled the record and does not bubble) no later handler
\* is called, and after false the next one is
C3_DispatchOrder ==
    /\ \A k \in 1..Len(disp.seen) : disp.seen[k].h = k
    /\ \A k \in 1..(Len(disp.seen) - 1) :
         /\ disp.seen[k].ret = FALSE
         /\ ~(/\ disp.rec.sev >= handlers[k].level
              /\ ~disp.seen[k].fmtErr
              /\ ~handlers[k].bubble)
    /\ (~disp.active /\ disp.seen # <<>> /\ ~disp.seen[Len(disp.seen)].ret) =>
           Len(disp.seen) = Len(handlers)

C3_Witness ==
    /\ ~disp.active
    /\ Len(handlers) = 2
    /\ Len(disp.seen) = 1
    /\ disp.seen[1].ret = TRUE
    /\ disp.rec.sev >= handlers[2].level

\* C4: two records of different calendar days written through the rotating
\* handler resolve to two different paths, and a descriptor that is open is
\* the one of the current path
C4_DistinctDaysDistinctPaths ==
    /\ \A i, j \in 1..Len(writes) :
         writes[i].day # writes[j].day => writes[i].path # writes[j].path
    /\ rf.File.writer # NIL => rf.File.writer = rf.Path

\* the files that match the filename template with the date wildcarded
TemplateFiles(h, existing) ==
    LET ext == Ext(h.filename)
        base == Base(h.filename)
        basename == IF ext # <<>> THEN SubSeq(base, 1, Index(base, ext)) ELSE base
        pattern == Replace(Dir(h.filename) \o <<"/">> \o h.filenameFormat,
                           basename, <<"*">>) \o ext
    IN  {f \in existing : Match(pattern, f)}

\* the last call ran the retention cleanup of rotate with maxFiles > 0
CleanedUp ==
    /\ last.op \in {"Write", "Close"}
    /\ last.rotated
    /\ last.rfBefore.maxFiles > 0

\* the n greatest of a set of paths
Greatest(S, n) ==
    LET sorted == SortStrings(S)
    IN  {sorted[i] : i \in (Len(sorted) - n + 1)..Len(sorted)}

\* C5: a cleanup that finds more than maxFiles matching files, and in which no
\* deletion fails, leaves exactly the maxFiles greatest of them
C5_RetentionKeepsNewest ==
    LET before == TemplateFiles(last.rfBefore, DOMAIN last.fsBefore)
        after == TemplateFiles(last.rfBefore, DOMAIN fs)
        N == last.rfBefore.maxFiles
    IN  (CleanedUp /\ ~last.panic /\ last.err = "nil" /\ Cardinality(before) > N) =>
            (Cardinality(after) = N /\ after = Greatest(before, N))

\* C6: a cleanup that finds at most maxFiles matching files deletes none; one
\* that finds maxFiles + 1 deletes exactly the smallest
C6_RetentionBoundary ==
    LET before == TemplateFiles(last.rfBefore, DOMAIN last.fsBefore)
        N == last.rfBefore.maxFiles
    IN  CleanedUp =>
            /\ Cardinality(before) <= N => last.removed = {}
            /\ Cardinality(before) = N + 1 =>
                   last.removed = {SortStrings(before)[1]}

\* C7: at most one thread is inside Write, Close or rotate of the handler
C7_OneThreadInside ==
    Cardinality({t \in Threads : pc[t] # "idle"}) <= 1

\* C8: no two threads both rotate for the same boundary crossing
C8_OneRotationPerCrossing ==
    \A t1, t2 \in Threads :
        (rotations[t1] > 0 /\ rotations[t2] > 0) => t1 = t2

\* C9: when a deletion fails in the cleanup, the files before the failing one
\* are gone, the failing one and the later ones are still there, and Close
\* returns the error to its caller
C9_DeletionErrorSurfaced ==
    LET matched == SortStrings(Glob(globPattern(last.rfBefore.filename,
                                                last.rfBefore.filenameFormat),
                                    DOMAIN last.fsBefore))
        k == Cardinality(last.removed)
    IN  (last.op = "Close" /\ last.err = "remove") =>
            /\ last.removed = {matched[i] : i \in 1..k}
            /\ DOMAIN fs = (DOMAIN last.fsBefore) \ last.removed
            /\ last.ret = "error"

\* the layouts of the three granularities: year, year and month, year and
\* month and day, each part after an optional separator
Granularities ==
    LET seps == {<<>>} \cup {<<c>> : c \in Separators}
        y == <<"2", "0", "0", "6">>
        ym == {y \o s1 \o <<"0", "1">> : s1 \in seps}
    IN  {y} \cup ym \cup {l \o s2 \o <<"0", "2">> : l \in ym, s2 \in seps}

ContainsDate(ff) ==
    \E i \in 1..(Len(ff) - Len(PhDate) + 1) : SubSeq(ff, i, i + Len(PhDate) - 1) = PhDate

\* C10: SetFilenameFormat returns an error, without panicking, exactly when the
\* filename format lacks {date} or the date format is none of the three
\* granularities; on every other input it returns no error
C10_FormatValidation ==
    last.op = "SetFilenameFormat" =>
        LET valid == ContainsDate(last.args[1]) /\ last.args[2] \in Granularities
        IN  /\ ~valid => (last.ret = "error" /\ ~last.panic)
            /\ valid => (last.ret # "error" /\ (last.ret = "nil" \/ last.panic))

C10_Witness ==
    /\ last.op = "SetFilenameFormat"
    /\ ContainsDate(last.args[1])
    /\ last.args[2] \notin Granularities
    /\ HasPrefix(last.args[2], <<"2", "0", "0", "6">>)
    /\ last.ret = "error"

\* C11: when the formatter fails, Handle returns false and writes nothing; a
\* later record that passes the gate of this handler, still open, and is
\* formatted is appended to its file
C11_FormatErrorDropsRecord ==
    /\ (Handled /\ last.fmtErr) =>
           /\ last.ret = FALSE
           /\ fs = last.fsBefore
    /\ (/\ Handled
        /\ last.h \in last.failedBefore
        /\ last.rec.sev >= last.f.level
        /\ ~last.fmtErr
        /\ last.f.writer # NIL) =>
           fs = [last.fsBefore EXCEPT ![HandlerPath(last.h)] = Append(@, HandledBytes)]

C11_Witness ==
    /\ Handled
    /\ last.h \in last.failedBefore
    /\ ~last.fmtErr
    /\ last.f.writer # NIL
    /\ fs[HandlerPath(last.h)] = <<HandledBytes>>

\* C13: when Close was entered with the pending-rotation flag set and returns
\* without a deletion error, the flag is cleared, whatever maxFiles is and
\* however many files match
C13_FlagClearedAfterClose ==
    (/\ last.op \in {"Write", "Close"}
     /\ last.rotated
     /\ ~last.panic
     /\ last.err = "nil") => ~rf.mustRotate

\* C14: every record in a file was logged on the day the file is dated for: the
\* file's path is the template resolved for the record's calendar day
C14_NoRecordInStaleFile ==
    \A p \in DOMAIN fs :
        \A k \in 1..Len(fs[p]) :
            p = timedFilename(rf.filename, rf.filenameFormat, rf.dateFormat, fs[p][k][2])

\* C15: with maxFiles = 0 no call on the handler removes a file, and a rotation
\* still sets the current path and the next-rotation boundary from the clock
C15_UnlimitedRetention ==
    (last.op # "none" /\ last.rfBefore.maxFiles = 0) =>
        /\ DOMAIN fs = DOMAIN last.fsBefore
        /\ last.removed = {}
        /\ ~last.panic
        /\ last.rotated =>
               /\ rf.Path = timedFilename(rf.filename, rf.filenameFormat,
                                          rf.dateFormat, last.day)
               /\ rf.nextRotation = Tomorrow(last.day)

C15_Witness ==
    /\ last.op = "Write"
    /\ last.rfBefore.maxFiles = 0
    /\ last.rotated
    /\ Glob(globPattern(rf.filename, rf.filenameFormat), DOMAIN last.fsBefore) # {}
    /\ rf.Path # last.rfBefore.Path
    /\ rf.nextRotation # last.rfBefore.nextRotation

\* C16: a record written after the handler was closed, by its owner before the
\* call or by the rotation inside the call, is the last record of the file at
\* the current path: it is not dropped
C16_ReopenAfterClose ==
    (/\ last.op = "Write"
     /\ ~last.panic
     /\ (last.rfBefore.File.writer = NIL \/ last.rotated)) =>
        /\ rf.Path \in DOMAIN fs
        /\ fs[rf.Path] # <<>>
        /\ fs[rf.Path][Len(fs[rf.Path])] = last.args.formatted

\* the template of the handler is not the one it was constructed with
Reconfigured(h) ==
    h.filenameFormat # DefaultFilenameFormat \/ h.dateFormat # DefaultDateFormat

\* C17: once SetFilenameFormat has installed a new template, a record written
\* afterwards is the last record of the file whose path is the new template
\* resolved for today
C17_WritesFollowNewTemplate ==
    (/\ last.op = "Write"
     /\ ~last.panic
     /\ Reconfigured(last.rfBefore)) =>
        LET path == timedFilename(rf.filename, rf.filenameFormat, rf.dateFormat,
                                  last.day)
        IN  /\ path \in DOMAIN fs
            /\ fs[path] # <<>>
            /\ fs[path][Len(fs[path])] = last.args.formatted

\* C19: a SetFilenameFormat that rejects its arguments leaves the handler as it
\* was (the two formats, the open file, the current path, the pending flag and
\* the boundary) and touches no file
C19_RejectedFormatChangesNothing ==
    (last.op = "SetFilenameFormat" /\ last.ret = "error") =>
        /\ rf = last.rfBefore
        /\ fs = last.fsBefore

C19_Witness ==
    /\ last.op = "SetFilenameFormat"
    /\ last.ret = "error"
    /\ last.args[1] # rf.filenameFormat
    /\ last.args[2] # rf.dateFormat
    /\ rf.File.writer # NIL
    /\ fs[rf.Path] # <<>>

\* the name AddLogger registers the logger under
RegisteredName(args) == IF args.name = "" THEN args.logger.name ELSE args.name

\* C18: AddLogger for a name already registered returns an error and leaves the
\* registry as it was when overwrite is false, and succeeds and maps the name
\* to the new logger when overwrite is true; GetLogger returns an error exactly
\* for the names for which HasLogger is false
C18_RegistryErrors ==
    /\ (last.op = "AddLogger" /\ HasLogger(last.regBefore, RegisteredName(last.args))) =>
           IF last.args.overwrite
           THEN /\ last.ret = "nil"
                /\ GetLogger(registry, RegisteredName(last.args)) =
                       [logger |-> last.args.logger, err |-> "nil"]
           ELSE /\ last.ret = "error"
                /\ registry = last.regBefore
    /\ (last.op \in {"AddLogger", "GetLogger"} /\ last.ret = "error") =>
           registry = last.regBefore
    /\ \A name \in RegistryNames :
           GetLogger(registry, name).err = "error" <=> ~HasLogger(registry, name)
    /\ last.op = "GetLogger" =>
           (last.ret = "error" <=> ~HasLogger(last.regBefore, last.args.name))

C18_Witness ==
    /\ last.op = "AddLogger"
    /\ HasLogger(last.regBefore, RegisteredName(last.args))
    /\ ~last.args.overwrite
    /\ last.args.name = ""
    /\ GetLogger(registry, RegisteredName(last.args)).logger # last.args.logger
    /\ last.ret = "error"

\* C20: the registry stays usable: after Clear no name is registered and
\* GetLogger fails for every name, and an AddLogger of a name that is not
\* registered, made at any time, returns without a panic and makes the logger
\* the one GetLogger finds
C20_UsableAfterClear ==
    /\ last.op = "Clear" =>
           \A name \in RegistryNames :
               ~HasLogger(registry, name) /\ GetLogger(registry, name).err = "error"
    /\ (last.op = "AddLogger" /\ ~HasLogger(last.regBefore, RegisteredName(last.args))) =>
           /\ ~last.panic
           /\ last.ret = "nil"
           /\ GetLogger(registry, RegisteredName(last.args)) =
                  [logger |-> last.args.logger, err |-> "nil"]

====
